---------------------------- MODULE Spec2Model ----------------------------
(***************************************************************************)
(* gl-rs: the OpenGL loader generator (src/src/generator/main.rs), the     *)
(* loader it emits (the FnPtr storage slots, the per-command fn_mod        *)
(* modules and the aggregate load_with), and the registry resolver that    *)
(* feeds it (registry.rs, which is not part of the sources at hand and is  *)
(* modelled from section 4.2 and section 6 of the specification).          *)
(*                                                                         *)
(* Text that the program takes apart or puts together (identifiers, type   *)
(* names, symbol names, version strings) is a tuple of one-character       *)
(* strings, so that prefixing and parsing are computed; text that is only  *)
(* compared (profile, api and extension names) is a string.                *)
(***************************************************************************)
EXTENDS Integers, Sequences, FiniteSets, TLC

VARIABLES
    ns,         \* main.rs: the namespace handed to Generator::write
    registry,   \* main.rs: Generator.registry, [enums, cmds]
    pc,         \* "start" -> "written" (Generator::write returned) -> "failed"
    emitted,    \* the sections Generator::write wrote, one entry per line
    storage,    \* emitted `mod storage`: slot name -> [f, is_loaded]
    lastOp,     \* the last operation of the emitted loader and what it did
    visited,    \* history: the definitions for_enums and for_cmds handed on
    found,      \* history: slot name -> what the resolver last returned for it
    everLoaded, \* history: the slots that were Loaded at some time
    calls,      \* the aggregate load_with calls that have not returned, innermost last
    raw,        \* resolver: the raw registry document, [enums, cmds]
    filter,     \* resolver: the Option<GeneratorFilter> main built
    resolved,   \* resolver: the resolved registry, [enums, cmds]
    rpc,        \* resolver: "parsed" -> "resolved"
    hin,        \* helpers: the arguments the emission helpers are called with
    hout,       \* helpers: what each helper returned
    req,        \* lib.rs: the macro invocation as written, field by field
    tts,        \* lib.rs: the token trees handed to generate_bindings
    mres,       \* lib.rs: what generate_bindings did and returned
    semitted,   \* static_struct_gen.rs: what StaticStructGenerator::write wrote
    slastOp     \* static_struct_gen.rs: the last operation on the emitted struct

vars == <<ns, registry, pc, emitted, storage, lastOp, visited, found, everLoaded,
          calls, raw, filter, resolved, rpc, hin, hout, req, tts, mres, semitted, slastOp>>

genVars == <<ns, registry, pc, emitted, storage, lastOp, visited, found, everLoaded, calls>>
resVars == <<raw, filter, resolved, rpc>>
hlpVars == <<hin, hout>>
macVars == <<req, tts, mres>>
stubVars == <<semitted, slastOp>>

-----------------------------------------------------------------------------
(* Bounds of the model.                                                    *)

\* The registry handed to the generator holds at most MaxDefs definitions,
\* enums and commands together.
MaxDefs == 3

\* The raw registry document holds at most MaxRawDefs definitions.
MaxRawDefs == 2

\* A command handed to the emission helpers has at most MaxParams parameters.
MaxParams == 2

\* A macro invocation names at most MaxFields fields.
MaxFields == 2

\* The registry handed to both generator styles holds at most MaxStyleCmds
\* commands, and load_with of the emitted struct is counted up to MaxLoads.
MaxStyleCmds == 2
MaxLoads == 2

\* At most MaxNesting aggregate load_with calls are in progress at a time: one
\* called by the program, the others by a resolver that was asked for a symbol.
MaxNesting == 2

-----------------------------------------------------------------------------
(* Option<T>: None is the empty tuple, Some(x) the one-element tuple.      *)

None == <<>>
Some(x) == <<x>>
IsSome(o) == o # <<>>
Unwrap(o) == o[1]
UnwrapOr(o, d) == IF o = <<>> THEN d ELSE o[1]

Range(s) == {s[i] : i \in 1..Len(s)}

\* The sequences over S of length at most n.
SeqUpTo(S, n) == UNION {[1..k -> S] : k \in 0..n}

-----------------------------------------------------------------------------
(* Text.                                                                   *)

Digits == {"0", "1", "2", "3", "4", "5", "6", "7", "8", "9"}

StrGl == <<"g", "l">>
StrGlx == <<"g", "l", "x">>
StrWgl == <<"w", "g", "l">>

StrClear == <<"C", "l", "e", "a", "r">>
StrFlush == <<"F", "l", "u", "s", "h">>
StrTRUE == <<"T", "R", "U", "E">>
StrFALSE == <<"F", "A", "L", "S", "E">>
Str2D == <<"2", "D">>
StrIn == <<"i", "n">>
StrRef == <<"r", "e", "f">>
StrType == <<"t", "y", "p", "e">>
StrMask == <<"m", "a", "s", "k">>
StrRED == <<"R", "E", "D">>
StrGLuint == <<"G", "L", "u", "i", "n", "t">>
StrGLenum == <<"G", "L", "e", "n", "u", "m">>
StrGLboolean == <<"G", "L", "b", "o", "o", "l", "e", "a", "n">>
StrVoid == <<"v", "o", "i", "d">>

-----------------------------------------------------------------------------
(* The registry the generator reads (main.rs, `use registry::*`).          *)

EnumIdents == {StrTRUE, Str2D}
EnumValues == {<<"0">>, <<"1">>}
Enums == [ident : EnumIdents, value : EnumValues]

CmdIdents == {StrClear, StrFlush}
Bindings == {[ident |-> StrType, ty |-> StrGLenum]}
ParamLists == {<<>>} \cup {<<b>> : b \in Bindings}
Cmds == [proto : [ident : CmdIdents, ty : {StrVoid}], params : ParamLists, is_safe : {FALSE}]

Registries ==
    {r \in [enums : SeqUpTo(Enums, MaxDefs), cmds : SeqUpTo(Cmds, MaxDefs)] :
        Len(r.enums) + Len(r.cmds) <= MaxDefs}


-----------------------------------------------------------------------------
(* ty.rs (not part of the sources at hand): the static type-mapping table  *)
(* and the return-suffix rule, modelled from section 2 and section 4.3.    *)

StrCVoid == <<"c", "_", "v", "o", "i", "d">>
StrArrow == <<" ", "-", ">", " ">>

ToRustTy(ty) == IF ty = StrVoid THEN StrCVoid ELSE ty

ToReturnSuffix(ty) == IF ty = StrCVoid THEN <<>> ELSE StrArrow \o ty

-----------------------------------------------------------------------------
(* Generator: the first-seen-wins iteration (for_enums, for_cmds).         *)

\* seen.insert(key, ()) of the HashMap used as a set.
SeenInsert_Forget(seen, key) == seen

SeenInsert(seen, key) == seen \cup {key}

\* seen.find(&key) is Some(_).
SeenFind(seen, key) == key \in seen

\* The key for_enums looks up and inserts: def.ident.
EnumKey_WholeDef(def) == def

EnumKey(def) == def.ident

\* The key for_cmds looks up and inserts: def.proto.ident.
CmdKey_WholeDef(def) == def

CmdKey(def) == def.proto.ident

\* for_enums: the enums handed to fn_unseen, in the order of the calls.
RECURSIVE ForEnumsFrom(_, _, _, _)
ForEnumsFrom(enums, i, seen, acc) ==
    IF i > Len(enums) THEN acc
    ELSE LET def == enums[i] IN
         IF SeenFind(seen, EnumKey(def))
         THEN ForEnumsFrom(enums, i + 1, seen, acc)
         ELSE ForEnumsFrom(enums, i + 1, SeenInsert(seen, EnumKey(def)),
                           Append(acc, def))

ForEnums(enums) == ForEnumsFrom(enums, 1, {}, <<>>)

\* for_cmds: the commands handed to fn_unseen, in the order of the calls.
RECURSIVE ForCmdsFrom(_, _, _, _)
ForCmdsFrom(cmds, i, seen, acc) ==
    IF i > Len(cmds) THEN acc
    ELSE LET def == cmds[i] IN
         IF SeenFind(seen, CmdKey(def))
         THEN ForCmdsFrom(cmds, i + 1, seen, acc)
         ELSE ForCmdsFrom(cmds, i + 1, SeenInsert(seen, CmdKey(def)),
                          Append(acc, def))

ForCmds(cmds) == ForCmdsFrom(cmds, 1, {}, <<>>)

-----------------------------------------------------------------------------
(* Generator: the emission helpers.                                        *)

\* write_enum: the three arguments of the "pub static %s: %s = %s;" line.
WriteEnum_TrueOnly(enm, ty) ==
    LET ident == IF enm.ident[1] \in Digits THEN <<"_">> \o enm.ident ELSE enm.ident
        ty2 == IF ident = StrTRUE THEN StrGLboolean ELSE ty
    IN [ident |-> ident, ty |-> ty2, value |-> enm.value]

WriteEnum(enm, ty) ==
    LET ident == IF enm.ident[1] \in Digits THEN <<"_">> \o enm.ident ELSE enm.ident
        ty2 == IF ident = StrTRUE \/ ident = StrFALSE THEN StrGLboolean ELSE ty
    IN [ident |-> ident, ty |-> ty2, value |-> enm.value]

GenBindingIdent(binding, use_idents) ==
    IF use_idents
    THEN CASE binding.ident = StrIn -> <<"i", "n", "_">>
           [] binding.ident = StrRef -> <<"r", "e", "f", "_">>
           [] binding.ident = StrType -> <<"t", "y", "p", "e", "_">>
           [] OTHER -> binding.ident
    ELSE <<"_">>

\* gen_binding: the "%s: %s" pair.
GenBinding(binding, use_idents) ==
    [ident |-> GenBindingIdent(binding, use_idents), ty |-> ToRustTy(binding.ty)]

\* The three parameter lists, before connect(", ").
GenParamList(cmd, use_idents) ==
    [i \in 1..Len(cmd.params) |-> GenBinding(cmd.params[i], use_idents)]

GenParamIdentList_Raw(cmd) ==
    [i \in 1..Len(cmd.params) |-> cmd.params[i].ident]

GenParamIdentList(cmd) ==
    [i \in 1..Len(cmd.params) |-> GenBindingIdent(cmd.params[i], TRUE)]

GenParamTyList_SkipVoid(cmd) ==
    LET typed == SelectSeq(cmd.params, LAMBDA b : b.ty # StrVoid)
    IN [i \in 1..Len(typed) |-> ToRustTy(typed[i].ty)]

GenParamTyList(cmd) ==
    [i \in 1..Len(cmd.params) |-> ToRustTy(cmd.params[i].ty)]

GenReturnSuffix(cmd) == ToReturnSuffix(ToRustTy(cmd.proto.ty))

GenSymbolName_NoPrefix(n, cmd) == cmd.proto.ident

GenSymbolName(n, cmd) ==
    (CASE n = "Gl" -> StrGl
       [] n = "Glx" -> StrGlx
       [] n = "Wgl" -> StrWgl) \o cmd.proto.ident

-----------------------------------------------------------------------------
(* Generator: the sections of the emitted loader, one entry per line.      *)

WriteEnums(reg) ==
    LET es == ForEnums(reg.enums)
    IN [i \in 1..Len(es) |-> WriteEnum(es[i], StrGLenum)]

\* write_fns: pub [unsafe] fn name(params) ret { (storage::name.f)(args) }
WriteFns(reg) ==
    LET cs == ForCmds(reg.cmds)
    IN [i \in 1..Len(cs) |->
           [is_unsafe |-> ~cs[i].is_safe,
            name |-> cs[i].proto.ident,
            params |-> GenParamList(cs[i], TRUE),
            ret |-> GenReturnSuffix(cs[i]),
            slot |-> cs[i].proto.ident,
            args |-> GenParamIdentList(cs[i])]]

\* write_ptrs: fn_ptr!(fn name(params) ret), one static mut slot each.
WritePtrs(reg) ==
    LET cs == ForCmds(reg.cmds)
    IN [i \in 1..Len(cs) |->
           [name |-> cs[i].proto.ident,
            params |-> GenParamList(cs[i], TRUE),
            ret |-> GenReturnSuffix(cs[i])]]

\* write_fn_mods: fn_mod!(name, "symbol").
WriteFnMods(reg, n) ==
    LET cs == ForCmds(reg.cmds)
    IN [i \in 1..Len(cs) |->
           [name |-> cs[i].proto.ident, sym |-> GenSymbolName(n, cs[i])]]

\* write_failing_fns: failing!(fn name(tys) ret).
WriteFailingFns_NoDedup(reg) ==
    [i \in 1..Len(reg.cmds) |->
        [name |-> reg.cmds[i].proto.ident,
         tys |-> GenParamTyList(reg.cmds[i]),
         ret |-> GenReturnSuffix(reg.cmds[i])]]

WriteFailingFns(reg) ==
    LET cs == ForCmds(reg.cmds)
    IN [i \in 1..Len(cs) |->
           [name |-> cs[i].proto.ident,
            tys |-> GenParamTyList(cs[i]),
            ret |-> GenReturnSuffix(cs[i])]]

\* write_load_fn: the name::load_with(|s| loadfn(s)); calls of load_with.
WriteLoadFn_NoDedup(reg) ==
    [i \in 1..Len(reg.cmds) |-> reg.cmds[i].proto.ident]

WriteLoadFn(reg) ==
    LET cs == ForCmds(reg.cmds)
    IN [i \in 1..Len(cs) |-> cs[i].proto.ident]

NoSections ==
    [enums |-> <<>>, fns |-> <<>>, ptrs |-> <<>>, fn_mods |-> <<>>,
     failing |-> <<>>, load_fn |-> <<>>]

-----------------------------------------------------------------------------
(* The emitted loader at run time.                                         *)

\* Addresses a symbol resolver may return.
Addrs == {<<"0", "x", "A">>, <<"0", "x", "B">>}

\* failing::name, the stub that fails with "name was not loaded".
Failing(name) == [stub |-> TRUE, at |-> name]

\* transmute(p): the resolved address, seen as a function of the slot's type.
Transmute(p) == [stub |-> FALSE, at |-> p]

\* The fn_ptr! initialiser: FnPtr { f: ::failing::$name, is_loaded: false }.
FnPtrInit(name) == [f |-> Failing(name), is_loaded |-> FALSE]

\* FnPtr::new(ptr, failing_fn).
FnPtrNew_KeepLoaded(ptr, failing_fn) ==
    IF IsSome(ptr)
    THEN [f |-> Transmute(Unwrap(ptr)), is_loaded |-> TRUE]
    ELSE [f |-> failing_fn, is_loaded |-> TRUE]

FnPtrNew_DropPointer(ptr, failing_fn) ==
    IF IsSome(ptr)
    THEN [f |-> failing_fn, is_loaded |-> TRUE]
    ELSE [f |-> failing_fn, is_loaded |-> FALSE]

FnPtrNew(ptr, failing_fn) ==
    IF IsSome(ptr)
    THEN [f |-> Transmute(Unwrap(ptr)), is_loaded |-> TRUE]
    ELSE [f |-> failing_fn, is_loaded |-> FALSE]

\* The static muts of `mod storage`, as initialised.
StorageInit(ptrs) ==
    [name \in {ptrs[i].name : i \in 1..Len(ptrs)} |-> FnPtrInit(name)]

\* The symbols the emitted fn_mod modules look up.
Symbols(mods) == {mods[i].sym : i \in 1..Len(mods)}

\* The symbol resolvers a caller may supply, as far as the symbols syms are
\* concerned: symbol -> Option<extern fn>.
Resolvers(syms) == [syms -> {None} \cup {Some(a) : a \in Addrs}]

\* name::is_loaded().
IsLoaded(store, name) == store[name].is_loaded

\* name::load_with(loadfn): ::storage::$name = FnPtr::new(loadfn($sym), ::failing::$name).
FnModLoadWith_SkipMissing(store, m, loadfn) ==
    IF IsSome(loadfn[m.sym])
    THEN [store EXCEPT ![m.name] = FnPtrNew(loadfn[m.sym], Failing(m.name))]
    ELSE store

FnModLoadWith_AllSlots(store, m, loadfn) ==
    [name \in DOMAIN store |-> FnPtrNew(loadfn[m.sym], Failing(name))]

FnModLoadWith(store, m, loadfn) ==
    [store EXCEPT ![m.name] = FnPtrNew(loadfn[m.sym], Failing(m.name))]

\* The module a path name:: denotes.
FnModNamed(mods, name) == CHOOSE m \in Range(mods) : m.name = name

\* The slots whose is_loaded() answers true.
NowLoaded(store) == {name \in DOMAIN store : IsLoaded(store, name)}

\* What an operation of the emitted loader did: the lookups it made and the
\* slots it wrote so far, and whether it returned.
NoOp ==
    [op |-> "none", name |-> <<>>, lookups |-> <<>>, writes |-> <<>>,
     outcome |-> "none", target |-> <<>>]

\* An aggregate load_with that has just been called.
NewCall == [lookups |-> <<>>, writes |-> <<>>]

\* loadfn as far as one call of it is concerned: asked for sym, it answers r.
Answering(sym, r) == [s \in {sym} |-> r]

-----------------------------------------------------------------------------
(* The generator and the loader it emits, as a state machine.              *)

ResIdle ==
    /\ raw = [enums |-> <<>>, cmds |-> <<>>]
    /\ filter = None
    /\ resolved = [enums |-> <<>>, cmds |-> <<>>]
    /\ rpc = "idle"

HlpIdle == hin = <<>> /\ hout = <<>>

MacIdle == req = <<>> /\ tts = <<>> /\ mres = <<>>

StubIdle == semitted = <<>> /\ slastOp = <<>>

\* main: only the "gl" namespace reaches Generator::write.
Init ==
    /\ ns = "Gl"
    /\ registry \in Registries
    /\ pc = "start"
    /\ emitted = NoSections
    /\ storage = <<>>
    /\ lastOp = NoOp
    /\ visited = [enums |-> <<>>, cmds |-> <<>>]
    /\ found = <<>>
    /\ everLoaded = {}
    /\ calls = <<>>
    /\ ResIdle
    /\ HlpIdle
    /\ MacIdle
    /\ StubIdle

\* Generator::write: every section, in the order of the calls; the statics of
\* the emitted `mod storage` start at their initialisers.
Write ==
    /\ pc = "start"
    /\ pc' = "written"
    /\ emitted' = [enums |-> WriteEnums(registry),
                   fns |-> WriteFns(registry),
                   ptrs |-> WritePtrs(registry),
                   fn_mods |-> WriteFnMods(registry, ns),
                   failing |-> WriteFailingFns(registry),
                   load_fn |-> WriteLoadFn(registry)]
    /\ storage' = StorageInit(WritePtrs(registry))
    /\ lastOp' = NoOp
    /\ visited' = [enums |-> ForEnums(registry.enums), cmds |-> ForCmds(registry.cmds)]
    /\ found' = [name \in DOMAIN storage' |-> None]
    /\ everLoaded' = {}
    /\ calls' = <<>>
    /\ UNCHANGED <<ns, registry, resVars, hlpVars, macVars, stubVars>>

\* name::load_with(loadfn) of one emitted fn_mod module, called by the program
\* or by a resolver that is being asked for a symbol: loadfn($sym) answers and
\* the slot is assigned.
CmdLoadWith ==
    /\ pc = "written"
    /\ \E i \in 1..Len(emitted.fn_mods) :
          \E loadfn \in Resolvers({emitted.fn_mods[i].sym}) :
          LET m == emitted.fn_mods[i]
          IN /\ storage' = FnModLoadWith(storage, m, loadfn)
             /\ lastOp' = [op |-> "cmd_load_with", name |-> m.name,
                           lookups |-> <<[sym |-> m.sym, found |-> loadfn[m.sym]]>>,
                           writes |-> <<m.name>>,
                           outcome |-> "returned", target |-> <<>>]
             /\ found' = [found EXCEPT ![m.name] = loadfn[m.sym]]
    /\ everLoaded' = everLoaded \cup NowLoaded(storage')
    /\ UNCHANGED <<ns, registry, pc, emitted, visited, calls, resVars, hlpVars, macVars,
                   stubVars>>

\* name::load_with(loadfn) whose loadfn($sym) fails: the task unwinds before
\* the assignment, and no load in progress returns.
CmdLoadWithFails ==
    /\ pc = "written"
    /\ \E i \in 1..Len(emitted.fn_mods) :
          lastOp' = [op |-> "cmd_load_with", name |-> emitted.fn_mods[i].name,
                     lookups |-> <<>>, writes |-> <<>>,
                     outcome |-> "did not return", target |-> <<>>]
    /\ pc' = "failed"
    /\ calls' = <<>>
    /\ UNCHANGED <<ns, registry, emitted, storage, visited, found, everLoaded,
                   resVars, hlpVars, macVars, stubVars>>

\* The aggregate load_with(loadfn) is called, by the program or by a resolver
\* that is being asked for a symbol; with no command there is nothing to load
\* and it returns, otherwise it asks loadfn for the symbol of its first call.
LoadWithCall ==
    /\ pc = "written"
    /\ Len(calls) < MaxNesting
    /\ calls' = IF emitted.load_fn = <<>> THEN calls ELSE Append(calls, NewCall)
    /\ lastOp' = [op |-> "load_with", name |-> <<>>, lookups |-> <<>>, writes |-> <<>>,
                  outcome |-> IF emitted.load_fn = <<>> THEN "returned" ELSE "running",
                  target |-> <<>>]
    /\ UNCHANGED <<ns, registry, pc, emitted, storage, visited, found, everLoaded,
                   resVars, hlpVars, macVars, stubVars>>

\* The innermost aggregate load_with goes on: loadfn answers for the symbol of
\* the call name::load_with(|s| loadfn(s)) it has reached, the slot is
\* assigned, and load_with returns after the last of its calls.
LoadWithStep ==
    /\ pc = "written"
    /\ calls # <<>>
    /\ \E r \in {None} \cup {Some(a) : a \in Addrs} :
          LET top == calls[Len(calls)]
              m == FnModNamed(emitted.fn_mods, emitted.load_fn[Len(top.writes) + 1])
              now == [top EXCEPT !.lookups = Append(@, [sym |-> m.sym, found |-> r]),
                                 !.writes = Append(@, m.name)]
              done == Len(now.writes) = Len(emitted.load_fn)
              outer == SubSeq(calls, 1, Len(calls) - 1)
          IN /\ storage' = FnModLoadWith(storage, m, Answering(m.sym, r))
             /\ calls' = IF done THEN outer ELSE Append(outer, now)
             /\ lastOp' = [op |-> "load_with", name |-> <<>>,
                           lookups |-> now.lookups, writes |-> now.writes,
                           outcome |-> IF done THEN "returned" ELSE "running",
                           target |-> <<>>]
             /\ found' = [found EXCEPT ![m.name] = r]
    /\ everLoaded' = everLoaded \cup NowLoaded(storage')
    /\ UNCHANGED <<ns, registry, pc, emitted, visited, resVars, hlpVars, macVars, stubVars>>

\* The loadfn the innermost aggregate load_with is asking fails: the task
\* unwinds, the slots written so far stay written, the others stay as they
\* were, and no load in progress returns.
LoadWithFails ==
    /\ pc = "written"
    /\ calls # <<>>
    /\ lastOp' = [op |-> "load_with", name |-> <<>>,
                  lookups |-> calls[Len(calls)].lookups,
                  writes |-> calls[Len(calls)].writes,
                  outcome |-> "did not return", target |-> <<>>]
    /\ pc' = "failed"
    /\ calls' = <<>>
    /\ UNCHANGED <<ns, registry, emitted, storage, visited, found, everLoaded,
                   resVars, hlpVars, macVars, stubVars>>

\* One emitted function is invoked, by the program or by a resolver that is
\* being asked for a symbol: (storage::name.f)(args). The failing stub ends
\* the task with fail!; any other pointer is called.
Invoke ==
    /\ pc = "written"
    /\ \E i \in 1..Len(emitted.fns) :
          LET fn == emitted.fns[i]
              f == storage[fn.slot].f
          IN /\ pc' = IF f.stub THEN "failed" ELSE "written"
             /\ calls' = IF f.stub THEN <<>> ELSE calls
             /\ lastOp' = [op |-> "call", name |-> fn.name,
                           lookups |-> <<>>, writes |-> <<>>,
                           outcome |-> IF f.stub THEN "failed" ELSE "dispatched",
                           target |-> f.at]
    /\ UNCHANGED <<ns, registry, emitted, storage, visited, found, everLoaded,
                   resVars, hlpVars, macVars, stubVars>>

\* The generator alone: main hands Generator::write a registry, and write
\* emits the loader.
Next == Write

Spec == Init /\ [][Next]_vars

\* The registries the emitted loader is run for: commands without parameters,
\* identifiers repeated or not.
LoaderRegistries ==
    [enums : {<<>>}, cmds : SeqUpTo({c \in Cmds : c.params = <<>>}, MaxDefs)]

InitLoader ==
    /\ ns = "Gl"
    /\ registry \in LoaderRegistries
    /\ pc = "start"
    /\ emitted = NoSections
    /\ storage = <<>>
    /\ lastOp = NoOp
    /\ visited = [enums |-> <<>>, cmds |-> <<>>]
    /\ found = <<>>
    /\ everLoaded = {}
    /\ calls = <<>>
    /\ ResIdle
    /\ HlpIdle
    /\ MacIdle
    /\ StubIdle

\* The generator and the program that uses the loader it emitted.
NextLoader ==
    \/ Write
    \/ CmdLoadWith
    \/ CmdLoadWithFails
    \/ LoadWithCall
    \/ LoadWithStep
    \/ LoadWithFails
    \/ Invoke

SpecLoader == InitLoader /\ [][NextLoader]_vars


-----------------------------------------------------------------------------
(* main: the command line and the filter built from it.                    *)

Str10 == <<"1", ".", "0">>
Str31 == <<"3", ".", "1">>
Str43 == <<"4", ".", "3">>

\* The extension named on the command line and in the document, and one the
\* document does not declare.
ExtFoo == "GL_EXT_foo"
ExtBar == "GL_EXT_bar"

\* getopts Matches: --full, --extension (any number), --profile, --version, --api.
\* The command lines: `--full` on its own, or any of the other options.
Args ==
    {a \in [full : BOOLEAN,
            extension : {<<>>, <<ExtFoo>>},
            profile : {None, Some("core"), Some("compatibility")},
            version : {None, Some(Str10)},
            api : {None}] :
        a.full => (a.extension = <<>> /\ a.profile = None /\ a.version = None)}

\* main: `let filter = if args.opt_present("full") { None } else { Some(..) }`.
MainFilter_IgnoreFull(args) ==
    Some([extensions |-> args.extension,
          profile |-> UnwrapOr(args.profile, "core"),
          version |-> UnwrapOr(args.version, Str43),
          api |-> UnwrapOr(args.api, "gl")])

MainFilter(args) ==
    IF args.full
    THEN None
    ELSE Some([extensions |-> args.extension,
               profile |-> UnwrapOr(args.profile, "core"),
               version |-> UnwrapOr(args.version, Str43),
               api |-> UnwrapOr(args.api, "gl")])

\* The command line `--full`.
FullArgs ==
    [full |-> TRUE, extension |-> <<>>, profile |-> None, version |-> None, api |-> None]

-----------------------------------------------------------------------------
(* registry.rs (not part of the sources at hand): the raw registry and the *)
(* filter resolver, modelled from section 4.2 and the record shapes of     *)
(* section 6 of the specification.                                         *)

RawIdents == {StrClear, StrFlush}

\* Enum record: {identifier, value, type_override, introduced_in, extension},
\* and in the raw form the removal it carries (section 4.2, Input): none, or
\* one with its version and the profile it applies to.  A removal names the
\* "core" profile: "compatibility" is the profile that retains what "core"
\* removes (section 3, glossary; the crate docs of lib.rs:48-51).
RawEnums ==
    [identifier : RawIdents, value : {<<"1">>}, type_override : {None},
     introduced_in : {None, Some(Str10)},
     removed_in : {None, Some([version |-> Str31, profile |-> "core"])},
     extension : {None, Some(ExtFoo)}]

\* Command record: {identifier, return, parameters, is_safe, introduced_in,
\* removed_in, extension}.
RawCmds ==
    [identifier : RawIdents,
     return : {[identifier |-> <<>>, type_name |-> StrVoid]},
     parameters : {<<>>}, is_safe : {FALSE},
     introduced_in : {None, Some(Str10), Some(Str31)},
     removed_in : {None, Some([version |-> Str31, profile |-> "core"])},
     extension : {None, Some(ExtFoo)}]

\* The documents of at most max definitions, enums and commands together.
RawRegistries(max) ==
    UNION {{[enums |-> es, cmds |-> cs] : cs \in SeqUpTo(RawCmds, max - Len(es))} :
              es \in SeqUpTo(RawEnums, max)}

DigitVal(c) ==
    CASE c = "0" -> 0 [] c = "1" -> 1 [] c = "2" -> 2 [] c = "3" -> 3 [] c = "4" -> 4
      [] c = "5" -> 5 [] c = "6" -> 6 [] c = "7" -> 7 [] c = "8" -> 8 [] c = "9" -> 9

RECURSIVE ToNat(_)
ToNat(ds) ==
    IF ds = <<>> THEN 0
    ELSE 10 * ToNat(SubSeq(ds, 1, Len(ds) - 1)) + DigitVal(ds[Len(ds)])

\* Step 1: the version string as a comparable (major, minor) pair.
ParseVersion(str) ==
    LET dot == CHOOSE i \in 1..Len(str) : str[i] = "." /\ \A j \in 1..(i - 1) : str[j] # "."
    IN <<ToNat(SubSeq(str, 1, dot - 1)), ToNat(SubSeq(str, dot + 1, Len(str)))>>

VersionLeq(a, b) == a[1] < b[1] \/ (a[1] = b[1] /\ a[2] <= b[2])

\* Step 2: introduced at or before the requested version.
Introduced(def, v) ==
    /\ IsSome(def.introduced_in)
    /\ VersionLeq(ParseVersion(Unwrap(def.introduced_in)), v)

\* Step 2: removed at or before the requested version for the requested
\* profile; a removal that applies to another profile is ignored.
RemovedFor_OtherProfile(def, v, profile) ==
    /\ IsSome(def.removed_in)
    /\ VersionLeq(ParseVersion(Unwrap(def.removed_in).version), v)
    /\ Unwrap(def.removed_in).profile # profile

RemovedFor(def, v, profile) ==
    /\ IsSome(def.removed_in)
    /\ VersionLeq(ParseVersion(Unwrap(def.removed_in).version), v)
    /\ Unwrap(def.removed_in).profile = profile

\* Step 3: introduced by an extension the filter names.
ByExtension_AnyNamed(def, extensions) ==
    /\ IsSome(def.extension)
    /\ extensions # <<>>

ByExtension(def, extensions) ==
    /\ IsSome(def.extension)
    /\ Unwrap(def.extension) \in Range(extensions)

\* Steps 2 and 3, for an enum.
IncludedEnum(enm, f) ==
    \/ /\ Introduced(enm, ParseVersion(f.version))
       /\ ~RemovedFor(enm, ParseVersion(f.version), f.profile)
    \/ ByExtension(enm, f.extensions)

\* Steps 2 and 3, for a command.

IncludedCmd_ExtensionsReplace(cmd, f) ==
    IF f.extensions # <<>>
    THEN ByExtension(cmd, f.extensions)
    ELSE /\ Introduced(cmd, ParseVersion(f.version))
         /\ ~RemovedFor(cmd, ParseVersion(f.version), f.profile)

IncludedCmd(cmd, f) ==
    \/ /\ Introduced(cmd, ParseVersion(f.version))
       /\ ~RemovedFor(cmd, ParseVersion(f.version), f.profile)
    \/ ByExtension(cmd, f.extensions)

\* Step 5: first occurrence of each identifier, in document order.
RECURSIVE DedupFrom(_, _, _, _)
DedupFrom(defs, i, seen, acc) ==
    IF i > Len(defs) THEN acc
    ELSE IF defs[i].identifier \in seen
         THEN DedupFrom(defs, i + 1, seen, acc)
         ELSE DedupFrom(defs, i + 1, seen \cup {defs[i].identifier}, Append(acc, defs[i]))

Dedup(defs) == DedupFrom(defs, 1, {}, <<>>)

\* Steps 2 to 5; step 4 when the filter is absent.
Resolve(rawreg, optfilter) ==
    IF optfilter = None
    THEN [enums |-> Dedup(rawreg.enums), cmds |-> Dedup(rawreg.cmds)]
    ELSE LET f == Unwrap(optfilter)
         IN [enums |-> Dedup(SelectSeq(rawreg.enums, LAMBDA e : IncludedEnum(e, f))),
             cmds |-> Dedup(SelectSeq(rawreg.cmds, LAMBDA c : IncludedCmd(c, f)))]

\* The filter with one more extension name.
AddExtension(f, ext) == [f EXCEPT !.extensions = Append(@, ext)]

-----------------------------------------------------------------------------
(* The resolver, as a state machine: main builds the filter from the       *)
(* command line and Registry::from_xml resolves the document against it.   *)

GenIdle ==
    /\ ns = "Gl"
    /\ registry = [enums |-> <<>>, cmds |-> <<>>]
    /\ pc = "idle"
    /\ emitted = NoSections
    /\ storage = <<>>
    /\ lastOp = NoOp
    /\ visited = [enums |-> <<>>, cmds |-> <<>>]
    /\ found = <<>>
    /\ everLoaded = {}
    /\ calls = <<>>

InitResolve ==
    /\ raw \in RawRegistries(MaxRawDefs)
    /\ filter = None
    /\ resolved = [enums |-> <<>>, cmds |-> <<>>]
    /\ rpc = "parsed"
    /\ GenIdle
    /\ HlpIdle
    /\ MacIdle
    /\ StubIdle

ResolveRegistry ==
    /\ rpc = "parsed"
    /\ \E args \in Args :
          /\ filter' = MainFilter(args)
          /\ resolved' = Resolve(raw, MainFilter(args))
    /\ rpc' = "resolved"
    /\ UNCHANGED <<raw, genVars, hlpVars, macVars, stubVars>>

NextResolve == ResolveRegistry

SpecResolve == InitResolve /\ [][NextResolve]_vars

-----------------------------------------------------------------------------
(* The emission helpers, each called on its own: the arguments are drawn   *)
(* from the sets below and every helper is applied to them.                *)

HelperBindings == [ident : {StrIn, StrRef, StrType, StrMask}, ty : {StrGLenum, StrVoid}]

HelperCmds ==
    [proto : [ident : {StrClear}, ty : {StrVoid, StrGLenum}],
     params : SeqUpTo(HelperBindings, MaxParams),
     is_safe : BOOLEAN]

HelperEnums == [ident : {StrTRUE, StrFALSE, Str2D, StrRED}, value : EnumValues]

HelperInputs ==
    [cmd : HelperCmds, enm : HelperEnums, ty : {StrGLenum, StrGLuint},
     ns : {"Gl", "Glx", "Wgl"}]

InitHelpers ==
    /\ hin \in HelperInputs
    /\ hout = <<>>
    /\ GenIdle
    /\ ResIdle
    /\ MacIdle
    /\ StubIdle

\* Every helper of the generator, called with the arguments of the state;
\* write_fns is called for the registry that holds the one command.
CallHelpers ==
    /\ hout = <<>>
    /\ hout' = [write_enum |-> WriteEnum(hin.enm, hin.ty),
                gen_param_list |-> GenParamList(hin.cmd, TRUE),
                gen_param_list_anon |-> GenParamList(hin.cmd, FALSE),
                gen_param_ident_list |-> GenParamIdentList(hin.cmd),
                gen_param_ty_list |-> GenParamTyList(hin.cmd),
                gen_return_suffix |-> GenReturnSuffix(hin.cmd),
                gen_symbol_name |-> GenSymbolName(hin.ns, hin.cmd),
                write_fns |-> WriteFns([enums |-> <<>>, cmds |-> <<hin.cmd>>])]
    /\ UNCHANGED <<hin, genVars, resVars, macVars, stubVars>>

NextHelpers == CallHelpers

SpecHelpers == InitHelpers /\ [][NextHelpers]_vars

-----------------------------------------------------------------------------
(* lib.rs: the token trees of a generate_gl_bindings! invocation.          *)

\* TtToken(_, token::Ident), token::Colon, token::Comma, a string literal,
\* any other token, and TtDelimited with bracket delimiters.
TtIdent(name) == [k |-> "ident", s |-> name, tts |-> <<>>]
TtColon == [k |-> "colon", s |-> "", tts |-> <<>>]
TtComma == [k |-> "comma", s |-> "", tts |-> <<>>]
TtStr(str) == [k |-> "str", s |-> str, tts |-> <<>>]
TtOther == [k |-> "other", s |-> "", tts |-> <<>>]
TtBracket(inner) == [k |-> "bracket", s |-> "", tts |-> inner]

\* is_comma.
IsComma(tt) == tt.k = "comma"

\* drop_trailing_comma.
DropTrailingComma(ts) ==
    IF ts # <<>> /\ IsComma(ts[Len(ts)]) THEN SubSeq(ts, 1, Len(ts) - 1) ELSE ts

\* tts.split(is_comma): the slices between the commas; a slice is yielded
\* for what follows the last comma also when nothing follows it, and for a
\* sequence without tokens.
RECURSIVE SplitFrom(_, _, _, _)
SplitFrom(ts, i, cur, acc) ==
    IF i > Len(ts) THEN Append(acc, cur)
    ELSE IF IsComma(ts[i])
         THEN SplitFrom(ts, i + 1, <<>>, Append(acc, cur))
         ELSE SplitFrom(ts, i + 1, Append(cur, ts[i]), acc)

Split(ts) == SplitFrom(ts, 1, <<>>, <<>>)

\* A slice that is one string literal.
IsStrLit(ts) == Len(ts) = 1 /\ ts[1].k = "str"

-----------------------------------------------------------------------------
(* lib.rs: generate_bindings.                                              *)

\* The generators macro_handler hands to generate_bindings, by name.
MacroGenerators ==
    <<[name |-> "static", gen |-> "StaticGenerator"],
      [name |-> "global", gen |-> "GlobalGenerator"],
      [name |-> "struct", gen |-> "StructGenerator"],
      [name |-> "static_struct", gen |-> "StaticStructGenerator"]>>

\* The (Ns, source) pair of an api name, None for a name that is not one.
ApiOf(name) ==
    CASE name = "gl" -> Some([ns |-> "Gl", source |-> "GL_XML"])
      [] name = "glx" -> Some([ns |-> "Glx", source |-> "GLX_XML"])
      [] name = "wgl" -> Some([ns |-> "Wgl", source |-> "WGL_XML"])
      [] name = "egl" -> Some([ns |-> "Egl", source |-> "EGL_XML"])
      [] name = "gles1" -> Some([ns |-> "Gles1", source |-> "GL_XML"])
      [] name = "gles2" -> Some([ns |-> "Gles2", source |-> "GL_XML"])
      [] OTHER -> None

\* The generator options before the first field.
NoOptions ==
    [api |-> None, profile |-> None, version |-> None, generator |-> None,
     extensions |-> None, generators |-> Some(MacroGenerators), ret |-> None]

\* ecx.span_err(span, msg); return DummyResult::any(span).
SpanErr(st, msg) == [st EXCEPT !.ret = Some([outcome |-> "error", msg |-> msg])]

\* An index past the end of a slice: the task fails.
OutOfBounds(st) ==
    [st EXCEPT !.ret = Some([outcome |-> "panic", msg |-> "index out of bounds"])]

\* The first generator of the list with the given name.
FindGenerator(gens, name) ==
    LET hits == {i \in 1..Len(gens) : gens[i].name = name}
    IN IF hits = {} THEN None
       ELSE Some(gens[CHOOSE i \in hits : \A j \in hits : i <= j].gen)

\* The strings of an extension list: tts.split(is_comma).scan(..) stops at
\* the first slice that is not one string literal and sets `failed`.
RECURSIVE ScanExtensions(_, _, _)
ScanExtensions(slices, i, acc) ==
    IF i > Len(slices) THEN [failed |-> FALSE, exts |-> acc]
    ELSE IF IsStrLit(slices[i])
         THEN ScanExtensions(slices, i + 1, Append(acc, slices[i][1].s))
         ELSE [failed |-> TRUE, exts |-> acc]

\* The arms of `match (field, it.collect().as_slice())`.
ApiField(st, v) ==
    IF IsSome(st.api) THEN SpanErr(st, "An API was already specified.")
    ELSE IF IsStrLit(v)
         THEN IF IsSome(ApiOf(v[1].s))
              THEN [st EXCEPT !.api = ApiOf(v[1].s)]
              ELSE SpanErr(st, "Unknown API")
         ELSE SpanErr(st, "Invalid API format, expected string.")

ProfileField(st, v) ==
    IF IsSome(st.profile)
    THEN IF v = <<>> THEN OutOfBounds(st)
         ELSE SpanErr(st, "A profile was already specified.")
    ELSE IF IsStrLit(v)
         THEN IF v[1].s = "core" THEN [st EXCEPT !.profile = Some("core")]
              ELSE IF v[1].s = "compatibility"
                   THEN [st EXCEPT !.profile = Some("compatibility")]
                   ELSE SpanErr(st, "Unknown profile")
         ELSE SpanErr(st, "Invalid profile format, expected string.")

VersionField(st, v) ==
    IF IsSome(st.version) THEN SpanErr(st, "A version was already specified.")
    ELSE IF IsStrLit(v)
         THEN [st EXCEPT !.version = Some(v[1].s)]
         ELSE SpanErr(st, "Invalid version format, expected string.")

GeneratorField(st, v) ==
    IF IsSome(st.generator) THEN SpanErr(st, "A generator was already specified.")
    ELSE IF IsStrLit(v)
         THEN IF st.generators = None THEN st
              ELSE LET hit == FindGenerator(Unwrap(st.generators), v[1].s)
                   IN IF IsSome(hit)
                      THEN [st EXCEPT !.generator = hit, !.generators = None]
                      ELSE SpanErr([st EXCEPT !.generators = None], "Unknown generator")
         ELSE SpanErr(st, "Invalid generator format, expected string.")

ExtensionsField(st, v) ==
    IF IsSome(st.extensions)
    THEN SpanErr(st, "The list of extensions were already specified.")
    ELSE IF Len(v) = 1 /\ v[1].k = "bracket"
         THEN LET r == ScanExtensions(Split(DropTrailingComma(v[1].tts)), 1, <<>>)
              IN IF r.failed
                 THEN SpanErr(st, "Invalid extension format, expected string.")
                 ELSE [st EXCEPT !.extensions = Some(r.exts)]
         ELSE SpanErr(st, "Expected a list of extension strings.")

\* The body of `for tts in tts.split(is_comma)` for one slice f.
ParseField(st, f) ==
    IF ~(Len(f) >= 1 /\ f[1].k = "ident")
    THEN SpanErr(st, "Expected a generator argument name")
    ELSE IF ~(Len(f) >= 2 /\ f[2].k = "colon")
         THEN SpanErr(st, "Expected a colon")
         ELSE LET field == f[1].s
                  v == SubSeq(f, 3, Len(f))
              IN CASE field = "api" -> ApiField(st, v)
                   [] field = "profile" -> ProfileField(st, v)
                   [] field = "version" -> VersionField(st, v)
                   [] field = "generator" -> GeneratorField(st, v)
                   [] field = "extensions" -> ExtensionsField(st, v)
                   [] OTHER -> SpanErr(st, "Unknown field")

\* The loop over the slices, left at the first `return`.
RECURSIVE ParseFields(_, _, _)
ParseFields(slices, i, st) ==
    IF i > Len(slices) \/ IsSome(st.ret) THEN st
    ELSE ParseFields(slices, i + 1, ParseField(st, slices[i]))

\* registry.rs (not part of the sources at hand): ns.to_string(), the name the
\* Filter carries for a namespace.
NsToString(n) ==
    CASE n = "Gl" -> "gl"
      [] n = "Glx" -> "glx"
      [] n = "Wgl" -> "wgl"
      [] n = "Egl" -> "egl"
      [] n = "Gles1" -> "gles1"
      [] n = "Gles2" -> "gles2"

\* generate_bindings on the tokens ts; `parsed` says whether the task running
\* Registry::from_xml came back with a registry.
GenerateBindingsOn(ts, parsed) ==
    LET st == ParseFields(Split(DropTrailingComma(ts)), 1, NoOptions)
        api == UnwrapOr(st.api, [ns |-> "Gl", source |-> "GL_XML"])
        flt == [api |-> NsToString(api.ns),
                extensions |-> UnwrapOr(st.extensions, <<>>),
                version |-> UnwrapOr(st.version, "1.0"),
                profile |-> UnwrapOr(st.profile, "core")]
        generator == UnwrapOr(st.generator, "StaticGenerator")
    IN IF IsSome(st.ret)
       THEN [outcome |-> Unwrap(st.ret).outcome, msg |-> Unwrap(st.ret).msg,
             filter |-> None, source |-> None, writes |-> <<>>]
       ELSE IF ~parsed
            THEN [outcome |-> "error", msg |-> "error while parsing the registry",
                  filter |-> Some(flt), source |-> Some(api.source), writes |-> <<>>]
            ELSE [outcome |-> "items", msg |-> "",
                  filter |-> Some(flt), source |-> Some(api.source),
                  writes |-> <<[generator |-> generator, ns |-> api.ns]>>]

-----------------------------------------------------------------------------
(* The macro invocations: the fields of one invocation as they are written, *)
(* and the tokens the compiler hands to the macro for them.                *)

\* One field as written: its name ("" when there is none), whether a colon
\* follows, and the tokens of its value.
FieldSpecs ==
    [name : {"api"}, colon : {TRUE},
     value : {<<TtStr("gl")>>, <<TtStr("gles2")>>, <<TtStr("vulkan")>>, <<TtOther>>}]
    \cup [name : {"profile"}, colon : {TRUE},
          value : {<<TtStr("core")>>, <<TtStr("compatibility")>>, <<TtStr("es")>>, <<>>}]
    \cup [name : {"version"}, colon : {TRUE}, value : {<<TtStr("4.5")>>, <<TtOther>>}]
    \cup [name : {"generator"}, colon : {TRUE},
          value : {<<TtStr("global")>>, <<TtStr("static_struct")>>, <<TtStr("bogus")>>}]
    \cup [name : {"extensions"}, colon : {TRUE},
          value : {<<TtBracket(<<>>)>>, <<TtBracket(<<TtStr(ExtFoo)>>)>>,
                   <<TtBracket(<<TtStr(ExtFoo), TtComma>>)>>,
                   <<TtBracket(<<TtOther>>)>>, <<TtStr(ExtFoo)>>}]
    \cup [name : {"foo"}, colon : {TRUE}, value : {<<TtStr("gl")>>}]
    \cup [name : {"api"}, colon : {FALSE}, value : {<<TtStr("gl")>>}]
    \cup [name : {""}, colon : {TRUE}, value : {<<TtStr("gl")>>}]

\* An invocation: its fields, and whether a comma follows the last one.
Requests ==
    {r \in [fields : SeqUpTo(FieldSpecs, MaxFields), trailing_comma : BOOLEAN] :
        r.trailing_comma => r.fields # <<>>}

FieldTokens(f) ==
    (IF f.name # "" THEN <<TtIdent(f.name)>> ELSE <<>>)
    \o (IF f.colon THEN <<TtColon>> ELSE <<>>)
    \o f.value

RECURSIVE JoinFields(_, _)
JoinFields(fs, i) ==
    IF i > Len(fs) THEN <<>>
    ELSE FieldTokens(fs[i])
         \o (IF i < Len(fs) THEN <<TtComma>> ELSE <<>>)
         \o JoinFields(fs, i + 1)

Tokens(r) == JoinFields(r.fields, 1) \o (IF r.trailing_comma THEN <<TtComma>> ELSE <<>>)

InitMacro ==
    /\ req \in Requests
    /\ tts = Tokens(req)
    /\ mres = <<>>
    /\ GenIdle
    /\ ResIdle
    /\ HlpIdle
    /\ StubIdle

\* macro_handler: generate_bindings with the four generators, the whole call.
GenerateBindings ==
    /\ req # <<>>
    /\ mres = <<>>
    /\ \E parsed \in BOOLEAN : mres' = GenerateBindingsOn(tts, parsed)
    /\ UNCHANGED <<req, tts, genVars, resVars, hlpVars, stubVars>>

NextMacro == GenerateBindings

SpecMacro == InitMacro /\ [][NextMacro]_vars

-----------------------------------------------------------------------------
(* generators/mod.rs (not part of the sources at hand): the helpers that   *)
(* static_struct_gen.rs calls through `super::`, modelled from section 4.3 *)
(* of the specification.                                                   *)

\* gen_struct_name: the name of the struct corresponds to the namespace.
GenStructName(api) ==
    CASE api = "Gl" -> <<"G", "l">>
      [] api = "Glx" -> <<"G", "l", "x">>
      [] api = "Wgl" -> <<"W", "g", "l">>

\* symbol_name(namespace, commandIdentifier): namespace prefix + identifier.
GeneratorsGenSymbolName(api, ident) ==
    (CASE api = "Gl" -> <<"g", "l">>
       [] api = "Glx" -> <<"g", "l", "x">>
       [] api = "Wgl" -> <<"w", "g", "l">>) \o ident

\* render_parameters(command, includeIdentifiers, includeTypes): one item per
\* parameter, in the order of the parameters; a name that is a reserved word
\* gets a trailing underscore, a position without a name the placeholder.
GenParameters(cmd, with_idents, with_types) ==
    [i \in 1..Len(cmd.params) |->
        [ident |-> IF with_idents
                   THEN (IF cmd.params[i].ident \in {StrIn, StrRef, StrType}
                         THEN cmd.params[i].ident \o <<"_">>
                         ELSE cmd.params[i].ident)
                   ELSE <<"_">>,
         ty |-> IF with_types THEN cmd.params[i].ty ELSE <<>>]]

-----------------------------------------------------------------------------
(* static_struct_gen.rs: the struct-of-stub-methods generator.             *)

\* write_struct: `pub struct {api};`, a struct without fields.
StaticWriteStruct(reg, api) == [name |-> GenStructName(api), fields |-> <<>>]

\* write_impl: load_with, then one method per command of registry.cmds():
\* pub unsafe fn {name}(&self, {typed_params}) -> {return_suffix} { {name}({idents}) }
StaticWriteImpl(reg, api) ==
    [load_with |-> [impl_of |-> GenStructName(api),
                    param |-> <<"_", "l", "o", "a", "d", "f", "n">>,
                    returns |-> GenStructName(api),
                    body |-> GenStructName(api)],
     methods |-> [i \in 1..Len(reg.cmds) |->
                     [name |-> reg.cmds[i].proto.ident,
                      typed_params |-> GenParameters(reg.cmds[i], TRUE, TRUE),
                      return_suffix |-> reg.cmds[i].proto.ty,
                      callee |-> reg.cmds[i].proto.ident,
                      idents |-> GenParameters(reg.cmds[i], TRUE, FALSE)]]]

\* write_fns: extern "system" { #[link_name="{symbol}"] fn {name}({params}) -> {return_suffix}; }
StaticWriteFns(reg, api) ==
    [i \in 1..Len(reg.cmds) |->
        [link_name |-> GeneratorsGenSymbolName(api, reg.cmds[i].proto.ident),
         name |-> reg.cmds[i].proto.ident,
         params |-> GenParameters(reg.cmds[i], TRUE, TRUE),
         return_suffix |-> reg.cmds[i].proto.ty]]

\* One writeln! (or one call of a helper of generators/mod.rs) on dest: the
\* part of the output it is, and what it says.
Chunk(kind, item) == [kind |-> kind, item |-> item]

\* write_header: the __gl_imports module.
StaticWriteHeader == <<Chunk("header", <<>>)>>

\* write_type_aliases: `pub mod types {`, gen_types, `}`.
StaticWriteTypeAliases(reg, api) ==
    <<Chunk("types_open", <<>>), Chunk("types", api), Chunk("types_close", <<>>)>>

\* write_enums: gen_enum_item for each enum of registry.enums().
StaticWriteEnums(reg) ==
    [i \in 1..Len(reg.enums) |-> Chunk("enum", reg.enums[i].ident)]

\* StaticStructGenerator::write: the writeln!s and helper calls on dest, in the
\* order of the calls.
StaticWrites(reg, api) ==
    StaticWriteHeader
    \o StaticWriteTypeAliases(reg, api)
    \o StaticWriteEnums(reg)
    \o <<Chunk("struct", StaticWriteStruct(reg, api))>>
    \o <<Chunk("impl_open", StaticWriteImpl(reg, api).load_with)>>
    \o [i \in 1..Len(reg.cmds) |-> Chunk("method", StaticWriteImpl(reg, api).methods[i])]
    \o <<Chunk("impl_close", <<>>)>>
    \o <<Chunk("extern_open", <<>>)>>
    \o [i \in 1..Len(reg.cmds) |-> Chunk("extern_fn", StaticWriteFns(reg, api)[i])]
    \o <<Chunk("extern_close", <<>>)>>

\* `.join(", ")` of the items of gen_parameters, as the parameter list of a
\* function (`ident: ty`) and as the argument list of a call (`ident`); no
\* parameters give the empty text.
JoinParams(items) ==
    LET Item(p) == IF p.ty = <<>> THEN p.ident ELSE p.ident \o <<":", " ">> \o p.ty
        RECURSIVE From(_)
        From(i) == IF i > Len(items) THEN <<>>
                   ELSE IF i = Len(items) THEN Item(items[i])
                   ELSE Item(items[i]) \o <<",", " ">> \o From(i + 1)
    IN From(1)

\* The pieces one writeln! hands to dest, each with one write_all, in the
\* order of the format string: the literal pieces between the arguments, and
\* the arguments.  What a helper of generators/mod.rs writes is one piece.
\* An empty piece (the parameters of a command without parameters) is no
\* write on dest.  Lit is a literal piece, the text as it stands in the
\* source, with the newline writeln! appends to the last one; Arg is the text
\* the Display of an argument writes.
PiecesOf(c) ==
    LET Lit(t) == [kind |-> "lit", text |-> t]
        Arg(t) == [kind |-> "arg", text |-> t]
        pieces ==
          CASE c.kind = "header" ->
                 <<Lit("\n        mod __gl_imports {\n            pub use std::mem;\n            pub use std::os::raw;\n        }\n    \n")>>
            [] c.kind = "types_open" ->
                 <<Lit("\n        pub mod types {\n            #![allow(non_camel_case_types, non_snake_case, dead_code, missing_copy_implementations)]\n    \n")>>
            [] c.kind = "types" -> <<[kind |-> "helper", text |-> <<"gen_types", c.item>>]>>
            [] c.kind = "types_close" -> <<Lit("}\n")>>
            [] c.kind = "enum" -> <<[kind |-> "helper", text |-> <<"gen_enum_item", c.item>>]>>
            [] c.kind = "struct" ->
                 <<Lit("\n        #[allow(non_camel_case_types, non_snake_case, dead_code)]\n        #[derive(Copy, Clone)]\n        pub struct "),
                   Arg(c.item.name),
                   Lit(";\n")>>
            [] c.kind = "impl_open" ->
                 <<Lit("impl "),
                   Arg(c.item.impl_of),
                   Lit(" {\n            /// Stub function.\n            #[allow(dead_code)]\n            pub fn load_with<F>(mut _loadfn: F) -> "),
                   Arg(c.item.returns),
                   Lit(" where F: FnMut(&'static str) -> *const __gl_imports::raw::c_void {\n                "),
                   Arg(c.item.body),
                   Lit("\n            }\n")>>
            [] c.kind = "method" ->
                 <<Lit("#[allow(non_snake_case)]\n            // #[allow(unused_variables)]\n            #[allow(dead_code)]\n            #[inline]\n            pub unsafe fn "),
                   Arg(c.item.name),
                   Lit("(&self, "),
                   Arg(JoinParams(c.item.typed_params)),
                   Lit(") -> "),
                   Arg(c.item.return_suffix),
                   Lit(" {\n                "),
                   Arg(c.item.callee),
                   Lit("("),
                   Arg(JoinParams(c.item.idents)),
                   Lit(")\n            }\n")>>
            [] c.kind = "impl_close" -> <<Lit("}\n")>>
            [] c.kind = "extern_open" ->
                 <<Lit("\n        #[allow(non_snake_case)]\n        #[allow(unused_variables)]\n        #[allow(dead_code)]\n        extern \"system\" {\n")>>
            [] c.kind = "extern_fn" ->
                 <<Lit("#[link_name=\""),
                   Arg(c.item.link_name),
                   Lit("\"] fn "),
                   Arg(c.item.name),
                   Lit("("),
                   Arg(JoinParams(c.item.params)),
                   Lit(") -> "),
                   Arg(c.item.return_suffix),
                   Lit(";\n")>>
            [] c.kind = "extern_close" -> <<Lit("}\n")>>
    IN SelectSeq(pieces, LAMBDA p : p.kind # "arg" \/ p.text # <<>>)

\* StaticStructGenerator::write: the pieces it hands to dest, in order, each
\* with the number of the writeln! (or helper call) it belongs to.
StaticPieces(reg, api) ==
    LET ws == StaticWrites(reg, api)
        RECURSIVE From(_)
        From(i) ==
            IF i > Len(ws) THEN <<>>
            ELSE LET pcs == PiecesOf(ws[i])
                 IN [j \in 1..Len(pcs) |->
                        [kind |-> pcs[j].kind, text |-> pcs[j].text,
                         chunk |-> i, cut |-> FALSE]]
                    \o From(i + 1)
    IN From(1)

\* A piece of two bytes or more: dest can take a part of it, neither nothing
\* nor all, before it fails.
Cuttable(p) ==
    CASE p.kind = "lit" -> p.text # "("
      [] p.kind = "arg" -> Len(p.text) >= 2
      [] p.kind = "helper" -> TRUE

\* What dest says of one kind, in the order it was written.
ItemsOf(dest, kind) ==
    LET sel == SelectSeq(dest, LAMBDA c : c.kind = kind)
    IN [i \in 1..Len(sel) |-> sel[i].item]

\* StaticStructGenerator::write, whose writeln!s are ws and whose pieces are
\* ps, on a dest that returns an error while it is handed piece number
\* fails_at (a fails_at past the last piece: no write fails); with `cut`,
\* dest took a part of that piece before.  Every `?` returns the error at
\* once, so dest holds the pieces before it and, with `cut`, the beginning of
\* that piece; write returns Ok(()) after the last one.  struct, impl and
\* externs are the declarations dest holds whole: those of the writeln!s
\* before the one the failing piece belongs to.
StaticWriteOn(ws, ps, fails_at, cut) ==
    LET n == IF fails_at <= Len(ps) THEN fails_at - 1 ELSE Len(ps)
        dest == SubSeq(ps, 1, n)
                \o (IF cut THEN <<[ps[fails_at] EXCEPT !.cut = TRUE]>> ELSE <<>>)
        whole == SubSeq(ws, 1, IF fails_at <= Len(ps) THEN ps[fails_at].chunk - 1
                               ELSE Len(ws))
    IN [result |-> IF fails_at <= Len(ps) THEN "Err" ELSE "Ok",
        dest |-> dest,
        struct |-> ItemsOf(whole, "struct"),
        impl |-> [load_with |-> ItemsOf(whole, "impl_open"),
                  methods |-> ItemsOf(whole, "method"),
                  closed |-> ItemsOf(whole, "impl_close") # <<>>],
        externs |-> ItemsOf(whole, "extern_fn")]

\* StaticStructGenerator::write(registry, dest).
StaticWrite(reg, api, fails_at, cut) ==
    StaticWriteOn(StaticWrites(reg, api), StaticPieces(reg, api), fails_at, cut)

\* The struct and the load_with of an output that was written to the end.
StructOf(em) == em.struct[1]

LoadWithOf(em) == em.impl.load_with[1]

\* The emitted load_with<F>(mut _loadfn: F) -> {api} { {api} }: the value it
\* returns and the symbols it asks _loadfn for.
StaticLoadWith_Resolves(em, loadfn) ==
    [returned |-> [ty |-> LoadWithOf(em).body, fields |-> StructOf(em).fields],
     lookups |-> [i \in 1..Len(em.externs) |->
                     [sym |-> em.externs[i].link_name,
                      found |-> loadfn[em.externs[i].link_name]]]]

StaticLoadWith(em, loadfn) ==
    [returned |-> [ty |-> LoadWithOf(em).body, fields |-> StructOf(em).fields],
     lookups |-> <<>>]

\* An emitted method called with the actual arguments `actuals`: the body
\* {name}({idents}) names an extern function of the emitted module and passes
\* it the values its parameter names are bound to.
StaticCallMethod(em, i, actuals) ==
    LET m == em.impl.methods[i]
        x == CHOOSE x \in Range(em.externs) : x.name = m.callee
        ValueOf(id) == actuals[CHOOSE j \in 1..Len(m.typed_params) : m.typed_params[j].ident = id]
    IN [symbol |-> x.link_name,
        received |-> [k \in 1..Len(m.idents) |-> ValueOf(m.idents[k].ident)]]

-----------------------------------------------------------------------------
(* The two generator styles over one registry: the global-function style   *)
(* of main.rs with its aggregate load_with, and the struct-of-stub-methods *)
(* style of static_struct_gen.rs; and the program that uses the struct the *)
(* latter emitted, its load_with and its methods.                          *)

\* The parameter lists whose names differ from one another.
StyleParamLists ==
    {ps \in SeqUpTo([ident : {StrType, StrMask}, ty : {StrGLenum}], MaxParams) :
        \A i, j \in 1..Len(ps) : ps[i].ident = ps[j].ident => i = j}

StyleCmds == [proto : [ident : CmdIdents, ty : {StrVoid}], params : StyleParamLists,
              is_safe : {FALSE}]

\* The resolved registries: no two commands share an identifier.
StyleRegistries ==
    {r \in [enums : {<<>>}, cmds : SeqUpTo(StyleCmds, MaxStyleCmds)] :
        \A i, j \in 1..Len(r.cmds) : r.cmds[i].proto.ident = r.cmds[j].proto.ident => i = j}

NoStubOp ==
    [op |-> "none", loads |-> 0, method |-> <<>>, actuals |-> <<>>,
     returned |-> <<>>, lookups |-> <<>>, symbol |-> <<>>, received |-> <<>>]

\* The registries both styles are run for: commands without parameters.
PlainRegistries ==
    {r \in StyleRegistries : \A i \in 1..Len(r.cmds) : r.cmds[i].params = <<>>}

\* The registries the struct-of-stub-methods style is run for: at most one
\* enum, and commands with parameters.
StubRegistries ==
    {[r EXCEPT !.enums = es] : r \in StyleRegistries, es \in SeqUpTo(Enums, 1)}

InitStyles ==
    /\ ns = "Gl"
    /\ registry \in PlainRegistries
    /\ pc = "start"
    /\ emitted = NoSections
    /\ storage = <<>>
    /\ lastOp = NoOp
    /\ visited = [enums |-> <<>>, cmds |-> <<>>]
    /\ found = <<>>
    /\ everLoaded = {}
    /\ calls = <<>>
    /\ semitted = <<>>
    /\ slastOp = NoStubOp
    /\ ResIdle
    /\ HlpIdle
    /\ MacIdle

InitStub ==
    /\ ns = "Gl"
    /\ registry \in StubRegistries
    /\ pc = "idle"
    /\ emitted = NoSections
    /\ storage = <<>>
    /\ lastOp = NoOp
    /\ visited = [enums |-> <<>>, cmds |-> <<>>]
    /\ found = <<>>
    /\ everLoaded = {}
    /\ calls = <<>>
    /\ semitted = <<>>
    /\ slastOp = NoStubOp
    /\ ResIdle
    /\ HlpIdle
    /\ MacIdle

\* StaticStructGenerator::write on a dest that takes every write, or returns
\* an error at one of them, with or without a part of that piece taken.
StaticStructWrite ==
    /\ semitted = <<>>
    /\ \E ws \in {StaticWrites(registry, ns)}, ps \in {StaticPieces(registry, ns)} :
          \E fails_at \in 1..(Len(ps) + 1), cut \in BOOLEAN :
             /\ cut => (fails_at <= Len(ps) /\ Cuttable(ps[fails_at]))
             /\ semitted' = StaticWriteOn(ws, ps, fails_at, cut)
    /\ UNCHANGED <<slastOp, genVars, resVars, hlpVars, macVars>>

\* A caller runs the emitted load_with with a resolver of its own; there is
\* a program to run only if write returned Ok(()).
StaticStructLoadWith ==
    /\ semitted # <<>>
    /\ semitted.result = "Ok"
    /\ slastOp.loads < MaxLoads
    /\ \E loadfn \in Resolvers({semitted.externs[i].link_name : i \in 1..Len(semitted.externs)}) :
          LET r == StaticLoadWith(semitted, loadfn)
          IN slastOp' = [NoStubOp EXCEPT !.op = "load_with",
                                         !.loads = slastOp.loads + 1,
                                         !.returned = r.returned,
                                         !.lookups = r.lookups]
    /\ UNCHANGED <<semitted, genVars, resVars, hlpVars, macVars>>

\* A caller calls one emitted method; the i-th actual argument is i.
StaticStructCall ==
    /\ semitted # <<>>
    /\ semitted.result = "Ok"
    /\ \E i \in 1..Len(semitted.impl.methods) :
          LET m == semitted.impl.methods[i]
              actuals == [k \in 1..Len(m.typed_params) |-> k]
              r == StaticCallMethod(semitted, i, actuals)
          IN slastOp' = [NoStubOp EXCEPT !.op = "call",
                                         !.loads = slastOp.loads,
                                         !.method = m.name,
                                         !.actuals = actuals,
                                         !.symbol = r.symbol,
                                         !.received = r.received]
    /\ UNCHANGED <<semitted, genVars, resVars, hlpVars, macVars>>

\* Both generators write, and the loader of the global-function style loads.
NextStyles == Write \/ LoadWithCall \/ LoadWithStep \/ StaticStructWrite

SpecStyles == InitStyles /\ [][NextStyles]_vars

\* The struct-of-stub-methods generator writes, and the program uses the
\* struct it emitted.
NextStub == StaticStructWrite \/ StaticStructLoadWith \/ StaticStructCall

SpecStub == InitStub /\ [][NextStub]_vars

-----------------------------------------------------------------------------
(* Vocabulary of the properties.                                           *)

\* No two entries of s have the same key.
NoDupBy(s, Key(_)) == \A i, j \in 1..Len(s) : Key(s[i]) = Key(s[j]) => i = j

\* The positions of s that hold the first entry with their key.
FirstPositions(s, Key(_)) ==
    {i \in 1..Len(s) : \A j \in 1..(i - 1) : Key(s[j]) # Key(s[i])}

\* The subsequence of s at the positions P, in the order of s.
SubSeqAt(s, P) ==
    [k \in 1..Cardinality(P) |->
        s[CHOOSE i \in P : Cardinality({j \in P : j <= i}) = k]]

FirstOccurrences(s, Key(_)) == SubSeqAt(s, FirstPositions(s, Key))

HasDuplicateBy(s, Key(_)) == \E i, j \in 1..Len(s) : i < j /\ Key(s[i]) = Key(s[j])

Names(section) == [i \in 1..Len(section) |-> section[i].name]

LoadOps == {"cmd_load_with", "load_with"}

\* The operation op has just written slot `name` with a lookup that found a
\* symbol (hit = TRUE) or found none (hit = FALSE): the write is the last one
\* of a load that returned or is going on.
LoadedSlotWith(op, name, hit) ==
    /\ op.op \in LoadOps
    /\ op.outcome \in {"returned", "running"}
    /\ op.writes # <<>>
    /\ op.writes[Len(op.writes)] = name
    /\ IsSome(op.lookups[Len(op.lookups)].found) = hit

-----------------------------------------------------------------------------
(* C1. Whatever registry the generator is handed, duplicates included, no  *)
(* two enums handed on by for_enums share an identifier, no two commands   *)
(* handed on by for_cmds share an identifier, and no section emitted per   *)
(* command names a command twice.                                          *)

C1_NoDuplicateIdentifiers ==
    pc # "start" =>
        /\ NoDupBy(visited.enums, LAMBDA d : d.ident)
        /\ NoDupBy(visited.cmds, LAMBDA d : d.proto.ident)
        /\ Len(emitted.enums) = Len(visited.enums)
        /\ \A sec \in {emitted.fns, emitted.ptrs, emitted.fn_mods, emitted.failing} :
              NoDupBy(sec, LAMBDA l : l.name)
        /\ NoDupBy(emitted.load_fn, LAMBDA n : n)

C1_Witness ==
    /\ pc = "written"
    /\ Len(registry.cmds) = 3
    /\ HasDuplicateBy(registry.cmds, LAMBDA d : d.proto.ident)
    /\ Len(visited.cmds) = 2
    /\ Len(emitted.load_fn) = 2

(* C2. The enums (commands) handed on are exactly the first occurrence of  *)
(* each identifier, in the order of the registry; a later entry with a     *)
(* seen identifier is dropped although its other fields differ, and the    *)
(* emitted function is the one of the first entry.                         *)

C2_FirstSeenWinsInOrder ==
    pc # "start" =>
        /\ visited.enums = FirstOccurrences(registry.enums, LAMBDA d : d.ident)
        /\ visited.cmds = FirstOccurrences(registry.cmds, LAMBDA d : d.proto.ident)
        /\ Len(emitted.fns) = Len(visited.cmds)
        /\ \A i \in 1..Len(emitted.fns) :
              /\ emitted.fns[i].name = visited.cmds[i].proto.ident
              /\ Len(emitted.fns[i].params) = Len(visited.cmds[i].params)

C2_Witness ==
    /\ pc = "written"
    /\ Len(registry.cmds) = 2
    /\ registry.cmds[1].proto.ident = registry.cmds[2].proto.ident
    /\ registry.cmds[1].params # registry.cmds[2].params
    /\ visited.cmds = <<registry.cmds[1]>>
    /\ Len(registry.enums) = 1
    /\ visited.enums = registry.enums


(* C3, as claimed. Once is_loaded() of a command has answered true, it     *)
(* answers true after every further per-command or aggregate load_with,    *)
(* whatever the resolver returns.                                          *)

C3_Claimed_NoReverseTransition ==
    \A name \in everLoaded : IsLoaded(storage, name)

(* C3, amended. A slot goes from Unloaded to Loaded only in a load         *)
(* operation whose resolver finds the command's symbol, and from Loaded    *)
(* to Unloaded only in a load operation whose resolver finds none; a load  *)
(* that finds the symbol leaves a Loaded slot Loaded, a load that finds    *)
(* none leaves the slot Unloaded, and no call changes a slot.              *)

C3_TransitionsFollowTheResolver ==
    [][pc = "written" =>
        \A name \in DOMAIN storage :
            /\ (~IsLoaded(storage, name) /\ IsLoaded(storage', name))
                  => LoadedSlotWith(lastOp', name, TRUE)
            /\ (IsLoaded(storage, name) /\ ~IsLoaded(storage', name))
                  => LoadedSlotWith(lastOp', name, FALSE)
            /\ LoadedSlotWith(lastOp', name, TRUE) => IsLoaded(storage', name)
            /\ LoadedSlotWith(lastOp', name, FALSE) => ~IsLoaded(storage', name)
            /\ lastOp'.op = "call" => storage' = storage]_vars

C3_Witness ==
    \E name \in everLoaded :
        /\ ~IsLoaded(storage, name)
        /\ LoadedSlotWith(lastOp, name, FALSE)

(* C4. Every slot is either Unloaded (is_loaded false, the pointer the     *)
(* command's failing stub) or Loaded (is_loaded true, the pointer the      *)
(* address the resolver last returned); every slot starts Unloaded; a call *)
(* through an Unloaded slot fails, a call through a Loaded slot is         *)
(* dispatched to the resolved address.                                     *)

C4_SlotIsUnloadedOrLoaded ==
    pc # "start" =>
        /\ DOMAIN storage = Range(Names(emitted.ptrs))
        /\ \A name \in DOMAIN storage :
              \/ /\ ~storage[name].is_loaded
                 /\ storage[name].f = Failing(name)
                 /\ found[name] = None
              \/ /\ storage[name].is_loaded
                 /\ IsSome(found[name])
                 /\ storage[name].f = Transmute(Unwrap(found[name]))
        /\ lastOp.op = "none" =>
              \A name \in DOMAIN storage : storage[name] = FnPtrInit(name)
        /\ lastOp.op = "call" =>
              /\ (lastOp.outcome = "failed") = ~IsLoaded(storage, lastOp.name)
              /\ (pc = "failed") = (lastOp.outcome = "failed")
              /\ IsLoaded(storage, lastOp.name) =>
                    /\ lastOp.outcome = "dispatched"
                    /\ lastOp.target = Unwrap(found[lastOp.name])
        /\ pc = "failed" => lastOp.outcome \in {"failed", "did not return"}

C4_Witness ==
    /\ lastOp.op = "call"
    /\ lastOp.outcome = "dispatched"
    /\ lastOp.target \in Addrs
    /\ \E name \in DOMAIN storage : storage[name] = FnPtrInit(name)

(* C5. A lookup that finds no symbol is no error of the load: the load     *)
(* returns, the slot holds the failing stub with is_loaded false, and the  *)
(* task fails only in a call of a command whose slot is Unloaded.          *)

C5_MissingSymbolFailsAtFirstUse ==
    /\ \A name \in DOMAIN storage :
          (lastOp.op \in LoadOps /\ lastOp.writes # <<>>
             /\ lastOp.writes[Len(lastOp.writes)] = name
             /\ lastOp.lookups[Len(lastOp.lookups)].found = None
             /\ lastOp.outcome # "did not return") =>
              /\ pc = "written"
              /\ lastOp.outcome = "returned" \/ Len(lastOp.writes) < Len(emitted.load_fn)
              /\ storage[name] = FnPtrInit(name)
    /\ pc = "failed" =>
          \/ /\ lastOp.op = "call"
             /\ storage[lastOp.name] = FnPtrInit(lastOp.name)
          \/ /\ lastOp.op \in LoadOps
             /\ lastOp.outcome = "did not return"
    /\ (lastOp.op = "call" /\ found[lastOp.name] = None) => pc = "failed"

C5_Witness ==
    /\ pc = "written"
    /\ lastOp.op = "load_with"
    /\ lastOp.outcome = "returned"
    /\ Len(lastOp.lookups) = 2
    /\ IsSome(lastOp.lookups[1].found)
    /\ LoadedSlotWith(lastOp, lastOp.writes[2], FALSE)
    /\ storage[lastOp.writes[2]] = FnPtrInit(lastOp.writes[2])

\* The identifiers of the commands of the registry, and what an aggregate
\* load_with that returned looked up and wrote for one of them.
CmdIdentsOf(reg) == {reg.cmds[i].proto.ident : i \in 1..Len(reg.cmds)}

LookupsOf(op, id) ==
    {k \in 1..Len(op.lookups) : op.lookups[k].sym = GenSymbolName(ns, [proto |-> [ident |-> id]])}

WritesOf(op, id) == {k \in 1..Len(op.writes) : op.writes[k] = id}

(* C6, as claimed. One aggregate load_with looks every command identifier  *)
(* of the registry up exactly once, under the command's symbol name, and   *)
(* writes its slot exactly once; when it has returned, is_loaded() of a    *)
(* command is true exactly if the resolver found the command's symbol.     *)

C6_Claimed_LoadedIffThePassFoundIt ==
    (lastOp.op = "load_with" /\ lastOp.outcome = "returned") =>
        /\ Len(lastOp.lookups) = Cardinality(CmdIdentsOf(registry))
        /\ Len(lastOp.writes) = Cardinality(CmdIdentsOf(registry))
        /\ DOMAIN storage = CmdIdentsOf(registry)
        /\ \A id \in CmdIdentsOf(registry) :
              /\ Cardinality(LookupsOf(lastOp, id)) = 1
              /\ Cardinality(WritesOf(lastOp, id)) = 1
              /\ IsLoaded(storage, id) =
                    (\E k \in LookupsOf(lastOp, id) : IsSome(lastOp.lookups[k].found))

(* C6, amended. An aggregate load_with that returns has looked every       *)
(* command identifier of the registry up exactly once, under the command's *)
(* symbol name and in the order of the registry, and has written its slot  *)
(* exactly once; when it has returned, is_loaded() of a command is true    *)
(* exactly if the most recent lookup of the command's symbol found it,     *)
(* which is the lookup of this load_with unless the resolver ran a load of *)
(* that command while it was asked for a later symbol.  A load_with whose  *)
(* resolver fails does not return and has not written every slot.          *)

C6_AggregateLoadIsOnePass ==
    lastOp.op = "load_with" =>
        /\ lastOp.outcome = "returned" =>
              /\ Len(lastOp.lookups) = Cardinality(CmdIdentsOf(registry))
              /\ Len(lastOp.writes) = Cardinality(CmdIdentsOf(registry))
              /\ lastOp.writes = emitted.load_fn
              /\ DOMAIN storage = CmdIdentsOf(registry)
              /\ \A id \in CmdIdentsOf(registry) :
                    /\ Cardinality(LookupsOf(lastOp, id)) = 1
                    /\ Cardinality(WritesOf(lastOp, id)) = 1
                    /\ IsLoaded(storage, id) = IsSome(found[id])
                    /\ (\A k \in LookupsOf(lastOp, id) : lastOp.lookups[k].found = found[id])
                          => IsLoaded(storage, id) =
                                (\E k \in LookupsOf(lastOp, id) :
                                    IsSome(lastOp.lookups[k].found))
        /\ lastOp.outcome # "returned" =>
              /\ Len(lastOp.writes) < Cardinality(CmdIdentsOf(registry))
              /\ \A k \in 1..Len(lastOp.writes) : lastOp.writes[k] = emitted.load_fn[k]

\* A load_with that returned although the resolver, asked for the second
\* symbol, reset the slot the first lookup had loaded.
C6_Witness ==
    /\ lastOp.op = "load_with"
    /\ lastOp.outcome = "returned"
    /\ Len(registry.cmds) = 3
    /\ Len(lastOp.lookups) = 2
    /\ IsSome(lastOp.lookups[1].found)
    /\ IsSome(lastOp.lookups[2].found)
    /\ ~IsLoaded(storage, lastOp.writes[1])
    /\ IsLoaded(storage, lastOp.writes[2])

(* C7. A per-command load_with of command c changes the slot of c alone:   *)
(* the pointer and the is_loaded flag of every other command stay as they  *)
(* were, and is_loaded() of c then tells whether the resolver found c.     *)

C7_PerCommandLoadTouchesOneSlot ==
    [][(pc = "written" /\ lastOp'.op = "cmd_load_with" /\ lastOp'.outcome = "returned") =>
        /\ DOMAIN storage' = DOMAIN storage
        /\ \A name \in DOMAIN storage \ {lastOp'.name} : storage'[name] = storage[name]
        /\ IsLoaded(storage', lastOp'.name) = IsSome(lastOp'.lookups[1].found)]_vars

C7_Witness ==
    /\ lastOp.op = "cmd_load_with"
    /\ lastOp.outcome = "returned"
    /\ \E a, b \in DOMAIN storage :
          /\ a = lastOp.name
          /\ IsLoaded(storage, a)
          /\ ~IsLoaded(storage, b)
          /\ b \in everLoaded


-----------------------------------------------------------------------------
(* Properties of the resolver, under SpecResolve.                          *)

Identifiers(defs) == {defs[i].identifier : i \in 1..Len(defs)}

\* The resolved registry for the filter of the state with its profile
\* replaced.
WithProfile(p) == Resolve(raw, Some([Unwrap(filter) EXCEPT !.profile = p]))

\* The resolved registry for the filter of the state with one more extension.
WithExtension(ext) == Resolve(raw, Some(AddExtension(Unwrap(filter), ext)))

\* The resolved registry of `--full`.
Full == Resolve(raw, MainFilter(FullArgs))

\* Some declaration a of the document stands before a declaration b.
DeclaredBefore(defs, a, b) ==
    \E p, q \in 1..Len(defs) : p < q /\ defs[p] = a /\ defs[q] = b

ResolvedWith(p) == rpc = "resolved" /\ IsSome(filter) /\ Unwrap(filter).profile = p

(* C8, as claimed. Every enum and every command of the result for profile  *)
(* "core" at version V is in the result for "compatibility" at V, the      *)
(* extensions being the same.                                              *)

C8_Claimed_CompatibilityIsSuperset ==
    ResolvedWith("core") =>
        /\ Range(resolved.enums) \subseteq Range(WithProfile("compatibility").enums)
        /\ Range(resolved.cmds) \subseteq Range(WithProfile("compatibility").cmds)

(* C8, amended. Every enum identifier and every command identifier of the  *)
(* core result at V is in the compatibility result at V; an entry of the   *)
(* core result is in the compatibility result unless the document holds    *)
(* an earlier declaration of the same identifier that is removed for core  *)
(* at or before V, which the compatibility result keeps in its place.      *)

C8_CompatibilityKeepsCoreIdentifiers ==
    ResolvedWith("core") =>
        LET compat == WithProfile("compatibility")
            v == ParseVersion(Unwrap(filter).version)
            Kept(defs, was, now) ==
                \A i \in 1..Len(was) :
                    \/ was[i] \in Range(now)
                    \/ \E j \in 1..Len(now) :
                          /\ now[j].identifier = was[i].identifier
                          /\ RemovedFor(now[j], v, "core")
                          /\ DeclaredBefore(defs, now[j], was[i])
        IN /\ Identifiers(resolved.enums) \subseteq Identifiers(compat.enums)
           /\ Identifiers(resolved.cmds) \subseteq Identifiers(compat.cmds)
           /\ Kept(raw.enums, resolved.enums, compat.enums)
           /\ Kept(raw.cmds, resolved.cmds, compat.cmds)

C8_Witness ==
    /\ ResolvedWith("core")
    /\ Len(resolved.cmds) = 1
    /\ Len(WithProfile("compatibility").cmds) = 1
    /\ resolved.cmds[1] \notin Range(WithProfile("compatibility").cmds)
    /\ resolved.cmds[1].identifier = WithProfile("compatibility").cmds[1].identifier
    /\ RemovedFor(WithProfile("compatibility").cmds[1],
                  ParseVersion(Unwrap(filter).version), "core")

(* C9, as claimed. Adding one extension name to the filter removes no      *)
(* enum and no command that was in the resolved result.                    *)

C9_Claimed_ExtensionOnlyAddsEntries ==
    (rpc = "resolved" /\ IsSome(filter)) =>
        \A ext \in {ExtFoo, ExtBar} :
            /\ Range(resolved.enums) \subseteq Range(WithExtension(ext).enums)
            /\ Range(resolved.cmds) \subseteq Range(WithExtension(ext).cmds)

(* C9, amended. Adding one extension name removes no identifier from the   *)
(* resolved result; an entry of the result stays in it unless an earlier   *)
(* declaration of the same identifier, introduced by the added extension,  *)
(* takes its place.                                                        *)

C9_ExtensionOnlyAddsIdentifiers ==
    (rpc = "resolved" /\ IsSome(filter)) =>
        \A ext \in {ExtFoo, ExtBar} :
            LET more == WithExtension(ext)
                Kept(defs, was, now) ==
                    \A i \in 1..Len(was) :
                        \/ was[i] \in Range(now)
                        \/ \E j \in 1..Len(now) :
                              /\ now[j].identifier = was[i].identifier
                              /\ now[j].extension = Some(ext)
                              /\ DeclaredBefore(defs, now[j], was[i])
            IN /\ Identifiers(resolved.enums) \subseteq Identifiers(more.enums)
               /\ Identifiers(resolved.cmds) \subseteq Identifiers(more.cmds)
               /\ Kept(raw.enums, resolved.enums, more.enums)
               /\ Kept(raw.cmds, resolved.cmds, more.cmds)

C9_Witness ==
    /\ rpc = "resolved"
    /\ IsSome(filter)
    /\ Unwrap(filter).extensions = <<>>
    /\ Len(resolved.cmds) = 1
    /\ Len(WithExtension(ExtFoo).cmds) = 2
    /\ WithExtension(ExtFoo).cmds[1] = resolved.cmds[1]

(* C10, as claimed. Every enum and every command of the result of any      *)
(* filter is in the result of the full mode.                               *)

C10_Claimed_FullIsSuperset ==
    rpc = "resolved" =>
        /\ Range(resolved.enums) \subseteq Range(Full.enums)
        /\ Range(resolved.cmds) \subseteq Range(Full.cmds)

(* C10, amended. The full mode resolves every identifier the document      *)
(* declares, hence every identifier any filter resolves; for each          *)
(* identifier it holds the first declaration of the document, so an entry  *)
(* of a filtered result is in the full result unless an earlier            *)
(* declaration of the same identifier stands in the document.              *)

C10_FullHasEveryIdentifier ==
    rpc = "resolved" =>
        LET Covered(defs, part, all) ==
                /\ Identifiers(all) = Identifiers(defs)
                /\ Identifiers(part) \subseteq Identifiers(all)
                /\ \A i \in 1..Len(part) :
                      \/ part[i] \in Range(all)
                      \/ \E j \in 1..Len(all) :
                            /\ all[j].identifier = part[i].identifier
                            /\ DeclaredBefore(defs, all[j], part[i])
        IN /\ Covered(raw.enums, resolved.enums, Full.enums)
           /\ Covered(raw.cmds, resolved.cmds, Full.cmds)

C10_Witness ==
    /\ rpc = "resolved"
    /\ IsSome(filter)
    /\ Len(resolved.cmds) = 1
    /\ Len(Full.cmds) = 2
    /\ resolved.cmds[1] \in Range(Full.cmds)

\* The document declares something as introduced by extension ext.
OccursIn(rawreg, ext) ==
    \/ \E i \in 1..Len(rawreg.enums) : rawreg.enums[i].extension = Some(ext)
    \/ \E i \in 1..Len(rawreg.cmds) : rawreg.cmds[i].extension = Some(ext)

\* The resolved registry for the filter of the state without the name ext.
WithoutExtension(ext) ==
    Resolve(raw, Some([Unwrap(filter) EXCEPT
                          !.extensions = SelectSeq(@, LAMBDA e : e # ext)]))

(* C11. An extension name the document does not declare contributes        *)
(* nothing: resolution returns a registry, and it is the registry resolved *)
(* without that name, whether the name is added to the filter or is one    *)
(* the filter already holds.                                               *)

C11_UnknownExtensionContributesNothing ==
    (rpc = "resolved" /\ IsSome(filter)) =>
        \A ext \in {ExtFoo, ExtBar} :
            ~OccursIn(raw, ext) =>
                /\ WithExtension(ext) = resolved
                /\ WithoutExtension(ext) = resolved

C11_Witness ==
    /\ rpc = "resolved"
    /\ IsSome(filter)
    /\ Unwrap(filter).extensions = <<ExtFoo>>
    /\ ~OccursIn(raw, ExtFoo)
    /\ Len(raw.cmds) = 2
    /\ Len(resolved.cmds) = 1
    /\ WithoutExtension(ExtFoo) = resolved

-----------------------------------------------------------------------------
(* Properties of the emission helpers, under SpecHelpers.                  *)

\* The words gen_binding_ident may not emit as a parameter name.
ReservedWords == {StrIn, StrRef, StrType}

\* The name a parameter identifier is to be emitted under.
Disambiguated(id) == IF id \in ReservedWords THEN id \o <<"_">> ELSE id

(* C13. For every command the four parameter renderings (typed and named,  *)
(* typed only, named only, positional placeholder) have one item per       *)
(* declared parameter, and the i-th item of each is the rendering of the   *)
(* i-th declared parameter: its mapped type, its name, or the placeholder. *)

C13_ParameterListsAgree ==
    hout # <<>> =>
        LET ps == hin.cmd.params
        IN /\ Len(hout.gen_param_list) = Len(ps)
           /\ Len(hout.gen_param_ty_list) = Len(ps)
           /\ Len(hout.gen_param_ident_list) = Len(ps)
           /\ Len(hout.gen_param_list_anon) = Len(ps)
           /\ \A i \in 1..Len(ps) :
                 /\ hout.gen_param_ty_list[i] = ToRustTy(ps[i].ty)
                 /\ hout.gen_param_list[i].ty = hout.gen_param_ty_list[i]
                 /\ hout.gen_param_list_anon[i].ty = hout.gen_param_ty_list[i]
                 /\ hout.gen_param_list[i].ident = hout.gen_param_ident_list[i]
                 /\ hout.gen_param_ident_list[i] \in {ps[i].ident, ps[i].ident \o <<"_">>}
                 /\ hout.gen_param_list_anon[i].ident = <<"_">>

C13_Witness ==
    /\ hout # <<>>
    /\ Len(hin.cmd.params) = 2
    /\ hin.cmd.params[1] = [ident |-> StrType, ty |-> StrVoid]
    /\ hin.cmd.params[2] = [ident |-> StrMask, ty |-> StrGLenum]
    /\ hout.gen_param_ty_list = <<StrCVoid, StrGLenum>>
    /\ Len(hout.gen_param_list_anon) = 2

(* C14. A parameter named "type", "in" or "ref" is emitted under that name *)
(* with a trailing underscore and every other parameter under its own      *)
(* name, in the named list and in the typed and named list alike (the      *)
(* other two renderings carry no name); so the i-th name of an emitted     *)
(* function's signature is the i-th name passed at its call site.          *)

C14_ReservedWordsRenamed ==
    hout # <<>> =>
        LET ps == hin.cmd.params
            fn == hout.write_fns[1]
        IN /\ Len(fn.params) = Len(ps)
           /\ Len(fn.args) = Len(ps)
           /\ \A i \in 1..Len(ps) :
                 /\ hout.gen_param_ident_list[i] = Disambiguated(ps[i].ident)
                 /\ hout.gen_param_list[i].ident = Disambiguated(ps[i].ident)
                 /\ fn.params[i].ident = Disambiguated(ps[i].ident)
                 /\ fn.args[i] = fn.params[i].ident
                 /\ hout.gen_param_list_anon[i].ident \notin ReservedWords

C14_Witness ==
    /\ hout # <<>>
    /\ Len(hin.cmd.params) = 2
    /\ hin.cmd.params[1].ident = StrType
    /\ hin.cmd.params[2].ident = StrMask
    /\ hout.gen_param_ident_list = <<<<"t", "y", "p", "e", "_">>, StrMask>>
    /\ hout.write_fns[1].args = hout.gen_param_ident_list

(* C15. write_enum types the enums named "TRUE" and "FALSE" as GLboolean   *)
(* whatever type the caller supplies, types every other enum with the      *)
(* type the caller supplies, and emits the value of the enum unchanged.    *)

C15_BooleanEnumsTypedGLboolean ==
    hout # <<>> =>
        /\ hout.write_enum.ty =
              IF hin.enm.ident \in {StrTRUE, StrFALSE} THEN StrGLboolean ELSE hin.ty
        /\ hout.write_enum.value = hin.enm.value

C15_Witness ==
    /\ hout # <<>>
    /\ hin.enm.ident = StrFALSE
    /\ hin.ty = StrGLuint
    /\ hout.write_enum.ty = StrGLboolean
    /\ hout.write_enum.value = hin.enm.value

-----------------------------------------------------------------------------
(* Properties of the two generator styles, under SpecStyles and SpecStub.  *)

\* The position of the command named id in the registry.
CmdIndex(id) == CHOOSE i \in 1..Len(registry.cmds) : registry.cmds[i].proto.ident = id

(* C16. The symbol name of a command is the prefix of the namespace        *)
(* followed by the identifier of the command; it is the key the aggregate  *)
(* load_with of the global-function style hands to the resolver for the    *)
(* slot of that command, and the link name the struct-of-stub-methods      *)
(* style declares for it; two commands with different identifiers never    *)
(* have the same symbol name.                                              *)

C16_SymbolNameIsPrefixPlusIdentifier ==
    /\ pc # "start" =>
          /\ Len(emitted.fn_mods) = Len(registry.cmds)
          /\ \A i \in 1..Len(emitted.fn_mods) :
                /\ emitted.fn_mods[i].name = registry.cmds[i].proto.ident
                /\ emitted.fn_mods[i].sym = StrGl \o registry.cmds[i].proto.ident
          /\ \A i, j \in 1..Len(emitted.fn_mods) :
                emitted.fn_mods[i].sym = emitted.fn_mods[j].sym
                    => emitted.fn_mods[i].name = emitted.fn_mods[j].name
    /\ lastOp.op = "load_with" =>
          \A k \in 1..Len(lastOp.lookups) :
              lastOp.lookups[k].sym = StrGl \o lastOp.writes[k]
    /\ semitted # <<>> =>
          /\ \A i \in 1..Len(semitted.externs) :
                semitted.externs[i].link_name = StrGl \o registry.cmds[i].proto.ident
          /\ pc # "start" =>
                \A i \in 1..Len(emitted.fn_mods), j \in 1..Len(semitted.externs) :
                    (emitted.fn_mods[i].name = semitted.externs[j].name)
                        = (emitted.fn_mods[i].sym = semitted.externs[j].link_name)

C16_Witness ==
    /\ lastOp.op = "load_with"
    /\ lastOp.outcome = "returned"
    /\ semitted # <<>>
    /\ semitted.result = "Ok"
    /\ Len(registry.cmds) = 2
    /\ lastOp.lookups[1].sym = <<"g", "l">> \o registry.cmds[1].proto.ident
    /\ semitted.externs[2].link_name = lastOp.lookups[2].sym
    /\ lastOp.lookups[1].sym # lastOp.lookups[2].sym

(* C19. The struct the struct-of-stub-methods style emits has no field;    *)
(* its load_with asks the resolver for nothing and returns the struct      *)
(* value, the same at every call; every method, whether load_with was      *)
(* called before or not, calls the extern function declared for the same   *)
(* command and hands it the arguments in the order they were declared.     *)

C19_StubStructHoldsNoState ==
    (semitted # <<>> /\ semitted.result = "Ok") =>
        /\ StructOf(semitted).fields = <<>>
        /\ Len(semitted.impl.methods) = Len(registry.cmds)
        /\ Len(semitted.externs) = Len(registry.cmds)
        /\ \A i \in 1..Len(registry.cmds) :
              /\ semitted.impl.methods[i].name = registry.cmds[i].proto.ident
              /\ semitted.externs[i].name = registry.cmds[i].proto.ident
              /\ Len(semitted.impl.methods[i].typed_params) = Len(registry.cmds[i].params)
              /\ Cardinality({j \in 1..Len(semitted.externs) :
                     semitted.externs[j].name = semitted.impl.methods[i].callee}) = 1
        /\ slastOp.op = "load_with" =>
              /\ slastOp.lookups = <<>>
              /\ slastOp.returned = [ty |-> StructOf(semitted).name, fields |-> <<>>]
        /\ slastOp.op = "call" =>
              LET i == CmdIndex(slastOp.method)
              IN /\ slastOp.symbol = semitted.externs[i].link_name
                 /\ Len(slastOp.received) = Len(registry.cmds[i].params)
                 /\ slastOp.received = slastOp.actuals

C19_Witness ==
    /\ slastOp.op = "call"
    /\ slastOp.loads = MaxLoads
    /\ slastOp.received = <<1, 2>>
    /\ Len(registry.cmds) = 2
    /\ slastOp.method = registry.cmds[2].proto.ident

-----------------------------------------------------------------------------
(* The documented arguments of the macro (lib.rs, "Arguments"): what an    *)
(* invocation asks for, read off the fields as they are written.           *)

FieldNames == {"api", "profile", "version", "generator", "extensions"}

DocumentedApis == {"gl", "gles1", "gles2", "wgl", "glx", "egl"}

DocumentedProfiles == {"core", "compatibility"}

GeneratorNames == {MacroGenerators[i].name : i \in 1..Len(MacroGenerators)}

\* A list of strings between brackets, a comma after each but (optionally)
\* the last.
IsStringList(v) ==
    /\ Len(v) = 1
    /\ v[1].k = "bracket"
    /\ \A i \in 1..Len(v[1].tts) :
          v[1].tts[i].k = (IF i % 2 = 1 THEN "str" ELSE "comma")

StringsOf(v) ==
    LET at == [i \in 1..((Len(v[1].tts) + 1) \div 2) |-> v[1].tts[2 * i - 1].s]
    IN at

WellFormedField(f) ==
    /\ f.name \in FieldNames
    /\ f.colon
    /\ CASE f.name = "api" -> IsStrLit(f.value) /\ f.value[1].s \in DocumentedApis
         [] f.name = "profile" -> IsStrLit(f.value) /\ f.value[1].s \in DocumentedProfiles
         [] f.name = "version" -> IsStrLit(f.value)
         [] f.name = "generator" -> IsStrLit(f.value) /\ f.value[1].s \in GeneratorNames
         [] f.name = "extensions" -> IsStringList(f.value)

\* Each field specified at most once, or not at all, with a value of its kind.
ValidRequest(r) ==
    /\ \A i \in 1..Len(r.fields) : WellFormedField(r.fields[i])
    /\ \A i, j \in 1..Len(r.fields) : r.fields[i].name = r.fields[j].name => i = j

Specified(r, name) == \E i \in 1..Len(r.fields) : r.fields[i].name = name

ValueOf(r, name) == r.fields[CHOOSE i \in 1..Len(r.fields) : r.fields[i].name = name].value

\* The selection a valid invocation asks for: the value of each specified
\* field, the documented default of each field that is not specified.
RequestedFilter(r) ==
    [api |-> IF Specified(r, "api") THEN ValueOf(r, "api")[1].s ELSE "gl",
     profile |-> IF Specified(r, "profile") THEN ValueOf(r, "profile")[1].s ELSE "core",
     version |-> IF Specified(r, "version") THEN ValueOf(r, "version")[1].s ELSE "1.0",
     extensions |-> IF Specified(r, "extensions") THEN StringsOf(ValueOf(r, "extensions"))
                    ELSE <<>>]

RequestedGenerator(r) == IF Specified(r, "generator") THEN ValueOf(r, "generator")[1].s ELSE "static"

\* C17 (as claimed): every field that is not specified takes its documented
\* default whichever other fields are specified, and a specified field reaches
\* the Filter unchanged: a valid invocation whose registry parses is generated
\* for the requested selection with the requested generator.  The code does
\* not do this for an invocation without fields, nor for `extensions: []`.
C17_Claimed_UnspecifiedFieldsTakeDefaults ==
    (mres # <<>> /\ ValidRequest(req) /\ mres.msg # "error while parsing the registry") =>
        /\ mres.outcome = "items"
        /\ Unwrap(mres.filter) = RequestedFilter(req)
        /\ Len(mres.writes) = 1
        /\ mres.writes[1].generator =
              Unwrap(FindGenerator(MacroGenerators, RequestedGenerator(req)))

\* C18 (as claimed): an invocation that is not valid makes generate_bindings
\* return the error result without a call of write, and write is called
\* exactly once by a request that succeeds and never otherwise.  The code
\* does not return at all for a second `profile` without a value.
C18_Claimed_SelectionErrorsReturnErrorResult ==
    mres # <<>> =>
        /\ ~ValidRequest(req) => mres.outcome = "error" /\ mres.writes = <<>>
        /\ mres.outcome = "items" => Len(mres.writes) = 1
        /\ mres.outcome # "items" => mres.writes = <<>>

-----------------------------------------------------------------------------
(* C20. The five sections the global-function generator emits per command  *)
(* (functions, storage slots, per-command modules, failing stubs and the   *)
(* calls of the aggregate load_with) name the same commands in the same    *)
(* order, each once; so every function reads a slot that exists and whose  *)
(* initial value is a failing stub that exists, has a module of its name,  *)
(* and the aggregate load_with writes every slot.                          *)

C20_SectionsNameTheSameCommands ==
    pc = "written" =>
        /\ Names(emitted.ptrs) = Names(emitted.fns)
        /\ Names(emitted.fn_mods) = Names(emitted.fns)
        /\ Names(emitted.failing) = Names(emitted.fns)
        /\ emitted.load_fn = Names(emitted.fns)
        /\ \A i, j \in 1..Len(emitted.fns) :
              emitted.fns[i].name = emitted.fns[j].name => i = j
        /\ \A i \in 1..Len(emitted.fns) :
              LET slot == emitted.fns[i].slot
              IN /\ slot \in DOMAIN storage
                 /\ \E p \in Range(emitted.ptrs) : p.name = slot
                 /\ \E f \in Range(emitted.failing) : f.name = slot
                 /\ \E m \in Range(emitted.fn_mods) : m.name = slot
        /\ DOMAIN storage = Range(Names(emitted.ptrs))
        /\ (lastOp.op = "load_with" /\ lastOp.outcome = "returned") =>
              /\ lastOp.writes = Names(emitted.ptrs)
              /\ Range(lastOp.writes) = DOMAIN storage

C20_Witness ==
    /\ pc = "written"
    /\ Len(registry.cmds) = 3
    /\ Len(emitted.fns) = 2
    /\ registry.cmds[1].proto.ident = registry.cmds[3].proto.ident
    /\ lastOp.op = "load_with"
    /\ lastOp.outcome = "returned"
    /\ Len(lastOp.writes) = 2

=============================================================================
